---- MODULE Spec2Model ----
(***************************************************************************)
(* Session / token lifecycle of the attendance backend.                    *)
(*                                                                         *)
(* Part A models routes/sessions.js: the in-memory Map activeSessions, the *)
(* session objects it refers to, the Attendance collection with its unique *)
(* (lectureId, studentId) index, and the request handlers.  Node runs one  *)
(* handler at a time and switches handlers only at an await, so every      *)
(* action below is the code between two awaits of one handler.             *)
(*                                                                         *)
(* Part B models routes/lectures.js over the Lecture collection            *)
(* (models/Lecture.js) and the lecture-based Attendance collection         *)
(* (models/Attendance.js).                                                 *)
(*                                                                         *)
(* Time is counted in minutes.                                             *)
(***************************************************************************)
EXTENDS Integers, Sequences, FiniteSets, TLC

\* ----------------------------------------------------------------- bounds
MaxTime == 2
MaxSessions == 1
MaxJoins == 2
MaxRefreshes == 1
MaxTimeL == 6
MaxLectures == 1
MaxLJoins == 2
MaxQrs == 1
MaxStarts == 2
MaxDays == 1

\* ------------------------------------------------------------- principals
Teachers == {"t1"}
Students == {"s1", "s2"}
Users == Teachers \cup Students
\* The class roster (Class.students): s2 is a student who is not enrolled.
Enrolled == {"s1"}

\* ------------------------------------------------------------ JS values
\* The time value of `new Date(NaN)`: what endTime is when duration is not a number.
InvalidDate == -100
\* A request body without a location.
NoLocation == -1
\* Radius (metres) of a restricted session's geofence, as sent to /create.
Radius == 50
\* duration values a /create body can carry (minutes); NaNDuration is a
\* value for which duration * 60 * 1000 is NaN.
NaNDuration == -100
Durations == {NaNDuration, 0, 1}
Locations == {[type |-> "open", radius |-> 0], [type |-> "restricted", radius |-> Radius]}
\* Distances (metres) of a submitted location from the session's coordinates.
Distances == {NoLocation, 0, Radius, Radius + 1}

\* Lifetime of a lecture's QR token, minutes: Date.now() + 5 * 60 * 1000.
TokenTTL == 5
\* duration values of a /start body (minutes); 60 is the default.
LDurations == {1, 60}
\* endTime of a lecture that has not been stopped: null.
NoDate == -1
\* The class the lectures are given to; its teacher is t1, its students Enrolled.
TheClass == "c1"
\* today.setHours(0, 0, 0, 0): the day a time falls in.
MinutesPerDay == 1440
DayOf(t) == t \div MinutesPerDay

SessionIds == 1..MaxSessions
JoinIds == 1..MaxJoins
LectureIds == 1..MaxLectures
StartIds == 1..MaxLectures
\* The POST /start requests of the runs in which two of them meet.
RaceIds == 1..MaxStarts
LJoinIds == 1..MaxLJoins
QrIds == 1..MaxQrs
RefreshIds == 1..MaxRefreshes
\* The principals that call the teacher's endpoints: the owner and somebody else.
Callers == {"t1", "s1"}

VARIABLES
    now,            \* the clock (new Date() / Date.now()), in minutes
    sessionObj,     \* the session objects ever created, by _id (a sequence: _id = index)
    activeSessions, \* the keys of the Map activeSessions
    attendance,     \* the Attendance collection: documents {_id, lectureId, studentId}
    nextToken,      \* crypto.randomBytes(16): the next fresh token
    refreshReq,     \* the POST /:sessionId/refresh-token requests, by request
    joinReq,        \* the POST /join/:token requests, by request
    resp,           \* the last response of a handler that runs without awaiting
    lectures,       \* the Lecture collection, by _id (a sequence: _id = index)
    lectureAttendance, \* the lecture-based Attendance collection
    startReq,       \* the POST /start requests, by request
    qrReq,          \* the GET /:lectureId/qr requests, by request
    ljoinReq,       \* the POST /join/:qrToken requests of routes/lectures.js, by request
    lresp           \* the last response of /stop, or what cleanupExpiredTokens returned

sessionVars == <<sessionObj, activeSessions, attendance, refreshReq, joinReq, resp>>
lectureVars == <<lectures, lectureAttendance, startReq, qrReq, ljoinReq, lresp>>
vars == <<now, nextToken, sessionVars, lectureVars>>

\* JavaScript's `a > b` on two Dates: false when either is an Invalid Date.
DateGT(a, b) == a # InvalidDate /\ b # InvalidDate /\ a > b

\* new Date(Date.now() + duration * 60 * 1000)
EndTimeOf(t, duration) == IF duration = NaNDuration THEN InvalidDate ELSE t + duration

NewSession(teacherId, duration, location, token, t) ==
    [teacherId |-> teacherId,
     location |-> location,
     qrToken |-> token,
     startTime |-> t,
     endTime |-> EndTimeOf(t, duration),
     isActive |-> TRUE,
     attendees |-> <<>>]

IdleRefresh == [pc |-> "idle", sid |-> 0, result |-> "none", token |-> 0]
IdleJoin == [pc |-> "idle", token |-> 0, studentId |-> "s1", distance |-> NoLocation, sid |-> 0, result |-> "none"]
NoResp == [op |-> "none", sid |-> 0, status |-> "none", body |-> <<>>]
IdleStart == [pc |-> "idle", teacher |-> "t1", duration |-> 0, startTime |-> 0, token |-> 0, result |-> "none"]
IdleQr == [pc |-> "idle", user |-> "t1", lid |-> 0, result |-> "none", token |-> 0, expiry |-> 0]
IdleLJoin == [pc |-> "idle", token |-> 0, student |-> "s1", lid |-> 0, at |-> 0, result |-> "none"]
NoLResp == [op |-> "none", lid |-> 0, status |-> "none", modifiedCount |-> 0]

Init ==
    /\ now = 0
    /\ sessionObj = <<>>
    /\ activeSessions = {}
    /\ attendance = {}
    /\ nextToken = 1
    /\ refreshReq = [q \in RefreshIds |-> IdleRefresh]
    /\ joinReq = [r \in JoinIds |-> IdleJoin]
    /\ resp = NoResp
    /\ lectures = <<>>
    /\ lectureAttendance = {}
    /\ startReq = [k \in RaceIds |-> IdleStart]
    /\ qrReq = [q \in QrIds |-> IdleQr]
    /\ ljoinReq = [r \in LJoinIds |-> IdleLJoin]
    /\ lresp = NoLResp

\* The clock advances.
Tick ==
    /\ now < MaxTime
    /\ now' = now + 1
    /\ UNCHANGED <<sessionObj, activeSessions, attendance, nextToken, refreshReq, joinReq, resp, lectureVars>>

\* ------------------------------------------------------------ /create
\* Class.findOne({_id: classId, teacherId}): the caller owns the class.
OwnsClass(user) == user \in Teachers

\* POST /create.  generateQRCode is awaited before anything is read or written,
\* so the handler's effect is one step: a fresh _id, a fresh token, the session
\* object, activeSessions.set.  qrOk = FALSE is QRCode.toDataURL throwing.
CreateSession(user, duration, location, qrOk) ==
    /\ Len(sessionObj) < MaxSessions
    /\ IF ~OwnsClass(user)
         THEN /\ resp' = [op |-> "create", sid |-> 0, status |-> "NotFound", body |-> <<>>]
              /\ UNCHANGED <<sessionObj, activeSessions, nextToken>>
         ELSE IF ~qrOk
         THEN /\ resp' = [op |-> "create", sid |-> 0, status |-> "Error", body |-> <<>>]
              /\ UNCHANGED <<sessionObj, activeSessions, nextToken>>
         ELSE /\ sessionObj' = Append(sessionObj, NewSession(user, duration, location, nextToken, now))
              /\ activeSessions' = activeSessions \cup {Len(sessionObj) + 1}
              /\ nextToken' = nextToken + 1
              /\ resp' = [op |-> "create", sid |-> Len(sessionObj) + 1, status |-> "success", body |-> <<>>]
    /\ UNCHANGED <<now, attendance, refreshReq, joinReq, lectureVars>>

\* ------------------------------------------------- /:sessionId/refresh-token
\* !session || session.teacherId !== req.user.id
NotFoundOrUnauthorized(sid, user) ==
    sid \notin activeSessions \/ sessionObj[sid].teacherId # user

\* !session.isActive || new Date() > session.endTime
HasEnded(sess, t) == ~sess.isActive \/ DateGT(t, sess.endTime)

\* A refresh that also switches the session back on.
RefreshedSession_reactivating(sess, token) == [sess EXCEPT !.qrToken = token, !.isActive = TRUE]

\* session.qrToken = token; session.qrCodeUrl = qrCodeUrl
RefreshedSession(sess, token) == [sess EXCEPT !.qrToken = token]

\* A refresh that answers success whatever happened.
RefreshDone_alwaysSuccess(q, result) == refreshReq' = [refreshReq EXCEPT ![q].pc = "done", ![q].result = "success"]

RefreshDone(q, result) == refreshReq' = [refreshReq EXCEPT ![q].pc = "done", ![q].result = result]

\* The handler up to `await generateQRCode(sessionId)`.
RefreshStart(q, sid, user) ==
    /\ refreshReq[q].pc = "idle"
    /\ \A q0 \in RefreshIds : q0 < q => refreshReq[q0].pc # "idle"
    /\ IF NotFoundOrUnauthorized(sid, user)
         THEN refreshReq' = [refreshReq EXCEPT ![q] = [pc |-> "done", sid |-> sid, result |-> "NotFound", token |-> 0]]
         ELSE IF HasEnded(sessionObj[sid], now)
         THEN refreshReq' = [refreshReq EXCEPT ![q] = [pc |-> "done", sid |-> sid, result |-> "SessionEnded", token |-> 0]]
         ELSE refreshReq' = [refreshReq EXCEPT ![q] = [pc |-> "generateQRCode", sid |-> sid, result |-> "none", token |-> 0]]
    /\ UNCHANGED <<now, sessionObj, activeSessions, attendance, nextToken, joinReq, resp, lectureVars>>

\* The handler after the await: the token write and activeSessions.set.
RefreshFinish(q, qrOk) ==
    /\ refreshReq[q].pc = "generateQRCode"
    /\ IF ~qrOk
         THEN /\ RefreshDone(q, "Error")
              /\ UNCHANGED <<sessionObj, activeSessions, nextToken>>
         ELSE /\ sessionObj' = [sessionObj EXCEPT ![refreshReq[q].sid] = RefreshedSession(@, nextToken)]
              /\ activeSessions' = activeSessions \cup {refreshReq[q].sid}
              /\ nextToken' = nextToken + 1
              /\ refreshReq' = [refreshReq EXCEPT ![q].pc = "done", ![q].result = "success", ![q].token = nextToken]
    /\ UNCHANGED <<now, attendance, joinReq, resp, lectureVars>>

\* ------------------------------------------------------------ /join/:token
\* A lookup that does not look at the status.
JoinMatches_ignoringStatus(sess, token) == sess.qrToken = token

\* A lookup that matches whatever token is presented.
JoinMatches_anyToken(sess, token) == sess.isActive

\* session.qrToken === token && session.isActive
JoinMatches(sess, token) == sess.qrToken = token /\ sess.isActive

\* The loop over activeSessions: the sessions a token resolves to.
LookupByToken(token) == {i \in activeSessions : JoinMatches(sessionObj[i], token)}

\* new Date() > targetSession.endTime
WindowLapsed(sess, t) == DateGT(t, sess.endTime)

\* targetSession.isActive = false
LapsedSession(sess) == [sess EXCEPT !.isActive = FALSE]

\* targetSession.location.type === 'restricted' && location
LocationChecked(sess, dist) == sess.location.type = "restricted" /\ dist # NoLocation

\* const distance = calculateDistance(...): the distance of the submitted
\* location from the session's coordinates, computed only inside that branch.
DistanceOf(sess, dist) == IF LocationChecked(sess, dist) THEN dist ELSE NoLocation

\* A geofence check that also turns away a location exactly on the radius.
OutOfRange_inclusive(sess, dist) == LocationChecked(sess, dist) /\ dist >= sess.location.radius

\* distance > targetSession.location.radius
OutOfRange(sess, dist) == LocationChecked(sess, dist) /\ dist > sess.location.radius

\* A lookup that never finds the record.
ExistingAttendance_notFound(sid, studentId) == FALSE

\* Attendance.findOne({lectureId, studentId})
ExistingAttendance(sid, studentId) ==
    \E a \in attendance : a.lectureId = sid /\ a.studentId = studentId

\* A collection without the unique index: no insert is ever turned away.
DuplicateKey_noIndex(sid, studentId) == FALSE

\* attendance.save() under the unique index {lectureId: 1, studentId: 1}:
\* a second document for the pair is a duplicate-key error.
DuplicateKey(sid, studentId) ==
    \E a \in attendance : a.lectureId = sid /\ a.studentId = studentId

\* An attendee put at the head of the list instead of its end.
WithAttendee_unshift(sess, studentId, t) ==
    [sess EXCEPT !.attendees = <<[studentId |-> studentId, timestamp |-> t]>> \o @]

\* targetSession.attendees.push({studentId, ..., timestamp: new Date()})
WithAttendee(sess, studentId, t) ==
    [sess EXCEPT !.attendees = Append(@, [studentId |-> studentId, timestamp |-> t])]

JoinDone(r, result) == joinReq' = [joinReq EXCEPT ![r].pc = "done", ![r].result = result]

\* The handler up to `await Attendance.findOne(...)`.
JoinStart(r, token, studentId, dist) ==
    /\ joinReq[r].pc = "idle"
    /\ \A r0 \in JoinIds : r0 < r => joinReq[r0].pc # "idle"
    /\ LET found == LookupByToken(token)
           sid == CHOOSE i \in found : TRUE
           req == [pc |-> "findOne", token |-> token, studentId |-> studentId,
                   distance |-> NoLocation, sid |-> 0, result |-> "none"]
       IN IF found = {}
            THEN /\ joinReq' = [joinReq EXCEPT ![r] = [req EXCEPT !.pc = "done", !.result = "InvalidToken"]]
                 /\ UNCHANGED sessionObj
            ELSE IF WindowLapsed(sessionObj[sid], now)
            THEN /\ sessionObj' = [sessionObj EXCEPT ![sid] = LapsedSession(@)]
                 /\ joinReq' = [joinReq EXCEPT ![r] = [req EXCEPT !.pc = "done", !.sid = sid, !.result = "SessionEnded"]]
            ELSE IF OutOfRange(sessionObj[sid], dist)
            THEN /\ joinReq' = [joinReq EXCEPT ![r] =
                        [req EXCEPT !.pc = "done", !.sid = sid, !.distance = dist, !.result = "OutOfRange"]]
                 /\ UNCHANGED sessionObj
            ELSE /\ joinReq' = [joinReq EXCEPT ![r] =
                        [req EXCEPT !.sid = sid, !.distance = DistanceOf(sessionObj[sid], dist)]]
                 /\ UNCHANGED sessionObj
    /\ UNCHANGED <<now, activeSessions, attendance, nextToken, refreshReq, resp, lectureVars>>

\* Attendance.findOne answers and the handler runs to `await attendance.save()`.
JoinFindOne(r) ==
    /\ joinReq[r].pc = "findOne"
    /\ IF ExistingAttendance(joinReq[r].sid, joinReq[r].studentId)
         THEN JoinDone(r, "AlreadyMarked")
         ELSE joinReq' = [joinReq EXCEPT ![r].pc = "save"]
    /\ UNCHANGED <<now, sessionObj, activeSessions, attendance, nextToken, refreshReq, resp, lectureVars>>

\* The insert runs; a duplicate key rejects the promise and the catch block
\* answers 500 'Failed to join session'.  Otherwise on to `await User.findById`.
JoinSave(r) ==
    /\ joinReq[r].pc = "save"
    /\ IF DuplicateKey(joinReq[r].sid, joinReq[r].studentId)
         THEN /\ JoinDone(r, "Error")
              /\ UNCHANGED attendance
         ELSE /\ attendance' = attendance \cup
                    {[_id |-> r, lectureId |-> joinReq[r].sid, studentId |-> joinReq[r].studentId]}
              /\ joinReq' = [joinReq EXCEPT ![r].pc = "findById"]
    /\ UNCHANGED <<now, sessionObj, activeSessions, nextToken, refreshReq, resp, lectureVars>>

\* User.findById answers: push the attendee, activeSessions.set, success.
JoinFinish(r) ==
    /\ joinReq[r].pc = "findById"
    /\ sessionObj' = [sessionObj EXCEPT ![joinReq[r].sid] = WithAttendee(@, joinReq[r].studentId, now)]
    /\ activeSessions' = activeSessions \cup {joinReq[r].sid}
    /\ JoinDone(r, "Accepted")
    /\ UNCHANGED <<now, attendance, nextToken, refreshReq, resp, lectureVars>>

\* ---------------------------------------------------- /:sessionId/attendance
ListAttendance(sid, user) ==
    /\ IF NotFoundOrUnauthorized(sid, user)
         THEN resp' = [op |-> "list", sid |-> sid, status |-> "NotFound", body |-> <<>>]
         ELSE resp' = [op |-> "list", sid |-> sid, status |-> "success", body |-> sessionObj[sid].attendees]
    /\ UNCHANGED <<now, sessionObj, activeSessions, attendance, nextToken, refreshReq, joinReq, lectureVars>>

\* ----------------------------------------------------------- /:sessionId/end
\* session.isActive = false; session.endTime = new Date()
EndedSession(sess, t) == [sess EXCEPT !.isActive = FALSE, !.endTime = t]

EndSession(sid, user) ==
    /\ IF NotFoundOrUnauthorized(sid, user)
         THEN /\ resp' = [op |-> "end", sid |-> sid, status |-> "NotFound", body |-> <<>>]
              /\ UNCHANGED <<sessionObj, activeSessions>>
         ELSE /\ sessionObj' = [sessionObj EXCEPT ![sid] = EndedSession(@, now)]
              /\ activeSessions' = activeSessions \cup {sid}
              /\ resp' = [op |-> "end", sid |-> sid, status |-> "success", body |-> <<>>]
    /\ UNCHANGED <<now, attendance, nextToken, refreshReq, joinReq, lectureVars>>

\* ------------------------------------------------------ cleanupExpiredSessions
\* now > session.endTime
SweepExpired(sess, t) == DateGT(t, sess.endTime)

\* The sessions one run of the cleanup marks inactive and deletes.
Swept == {i \in activeSessions : SweepExpired(sessionObj[i], now)}

cleanupExpiredSessions ==
    /\ sessionObj' = [i \in DOMAIN sessionObj |->
                        IF i \in Swept THEN LapsedSession(sessionObj[i]) ELSE sessionObj[i]]
    /\ activeSessions' = activeSessions \ Swept
    /\ UNCHANGED <<now, attendance, nextToken, refreshReq, joinReq, resp, lectureVars>>

\* ------------------------------------------------------------ specification
Next ==
    \/ Tick
    \/ \E u \in Callers, d \in Durations, l \in Locations, ok \in BOOLEAN : CreateSession(u, d, l, ok)
    \/ \E q \in RefreshIds, s \in SessionIds, u \in Callers : RefreshStart(q, s, u)
    \/ \E q \in RefreshIds, ok \in BOOLEAN : RefreshFinish(q, ok)
    \/ \E r \in JoinIds, t \in 0..(nextToken - 1), st \in Students, dist \in Distances :
           JoinStart(r, t, st, dist)
    \/ \E r \in JoinIds : JoinFindOne(r)
    \/ \E r \in JoinIds : JoinSave(r)
    \/ \E r \in JoinIds : JoinFinish(r)
    \/ \E s \in SessionIds, u \in Callers : ListAttendance(s, u)
    \/ \E s \in SessionIds, u \in Callers : EndSession(s, u)
    \/ cleanupExpiredSessions

Spec == Init /\ [][Next]_vars

\* The same program with its two drivers running for ever: the clock goes on
\* and setInterval keeps calling cleanupExpiredSessions.
SpecFair == Spec /\ WF_vars(Tick) /\ WF_vars(cleanupExpiredSessions)

\* ======================================================= routes/lectures.js
\* The clock advances (lecture side).
TickL ==
    /\ now < MaxTimeL
    /\ now' = now + 1
    /\ UNCHANGED <<nextToken, sessionVars, lectureVars>>

\* this.tokenExpiry = new Date(Date.now() + 5 * 60 * 1000)
TokenExpiryAt(t) == t + TokenTTL

\* startTime + duration: the end of the lecture's window.
WindowEndOf(lec) == lec.startTime + lec.duration

\* Lecture.findOne({classId, status: 'active'}): the class has a lecture going on.
ActiveLectureExists == \E i \in DOMAIN lectures : lectures[i].class = TheClass /\ lectures[i].isActive

StartDone(k, result) == startReq' = [startReq EXCEPT ![k].pc = "done", ![k].result = result]

\* POST /start up to `await lecture.save()`: the access check, the check for a
\* lecture already going on, the new document with its token.
StartLecture(k, user, duration) ==
    /\ startReq[k].pc = "idle"
    /\ \A k0 \in StartIds : k0 < k => startReq[k0].pc # "idle"
    /\ IF ~OwnsClass(user)
         THEN /\ StartDone(k, "AccessDenied")
              /\ UNCHANGED nextToken
         ELSE IF ActiveLectureExists
         THEN /\ StartDone(k, "AlreadyActive")
              /\ UNCHANGED nextToken
         ELSE /\ startReq' = [startReq EXCEPT ![k] =
                    [pc |-> "save", teacher |-> user, duration |-> duration,
                     startTime |-> now, token |-> nextToken, result |-> "none"]]
              /\ nextToken' = nextToken + 1
    /\ UNCHANGED <<now, sessionVars, lectures, lectureAttendance, qrReq, ljoinReq, lresp>>

NewLecture(req) ==
    [class |-> TheClass,
     teacher |-> req.teacher,
     startTime |-> req.startTime,
     duration |-> req.duration,
     qrToken |-> req.token,
     tokenExpiry |-> TokenExpiryAt(req.startTime),
     isActive |-> TRUE,
     endTime |-> NoDate]

\* lecture.save() of POST /start.
StartSave(k) ==
    /\ startReq[k].pc = "save"
    /\ lectures' = Append(lectures, NewLecture(startReq[k]))
    /\ StartDone(k, "success")
    /\ UNCHANGED <<now, nextToken, sessionVars, lectureAttendance, qrReq, ljoinReq, lresp>>

\* ------------------------------------------------------------ /stop/:lectureId
\* Lecture.findOne({_id, teacher, isActive: true})
StoppableBy(lid, user) ==
    lid \in DOMAIN lectures /\ lectures[lid].teacher = user /\ lectures[lid].isActive

\* lecture.isActive = false; lecture.endTime = new Date()
StoppedLecture(lec, t) == [lec EXCEPT !.isActive = FALSE, !.endTime = t]

StopLecture(lid, user) ==
    /\ IF ~StoppableBy(lid, user)
         THEN /\ lresp' = [op |-> "stop", lid |-> lid, status |-> "NotFound", modifiedCount |-> 0]
              /\ UNCHANGED lectures
         ELSE /\ lectures' = [lectures EXCEPT ![lid] = StoppedLecture(@, now)]
              /\ lresp' = [op |-> "stop", lid |-> lid, status |-> "success", modifiedCount |-> 0]
    /\ UNCHANGED <<now, nextToken, sessionVars, lectureAttendance, startReq, qrReq, ljoinReq>>

\* -------------------------------------------------------------- /:lectureId/qr
\* isTeacher || isStudent
HasAccess(lec, user) == lec.teacher = user \/ (user \in Students /\ user \in Enrolled)

\* lecture.tokenExpiry < new Date()
NeedsRefresh(lec, t) == lec.tokenExpiry < t

QrDone(q, result, token) ==
    qrReq' = [qrReq EXCEPT ![q].pc = "done", ![q].result = result, ![q].token = token]

\* GET /:lectureId/qr up to `await lecture.save()` (or to the response, when
\* the token is not refreshed).
QrStart(q, lid, user) ==
    /\ qrReq[q].pc = "idle"
    /\ \A q0 \in QrIds : q0 < q => qrReq[q0].pc # "idle"
    /\ IF ~(lid \in DOMAIN lectures /\ lectures[lid].isActive)
         THEN /\ qrReq' = [qrReq EXCEPT ![q] = [IdleQr EXCEPT !.pc = "done", !.user = user, !.lid = lid, !.result = "NotFound"]]
              /\ UNCHANGED nextToken
         ELSE IF ~HasAccess(lectures[lid], user)
         THEN /\ qrReq' = [qrReq EXCEPT ![q] = [IdleQr EXCEPT !.pc = "done", !.user = user, !.lid = lid, !.result = "AccessDenied"]]
              /\ UNCHANGED nextToken
         ELSE IF NeedsRefresh(lectures[lid], now)
         THEN /\ qrReq' = [qrReq EXCEPT ![q] =
                    [pc |-> "save", user |-> user, lid |-> lid, result |-> "none",
                     token |-> nextToken, expiry |-> TokenExpiryAt(now)]]
              /\ nextToken' = nextToken + 1
         ELSE /\ qrReq' = [qrReq EXCEPT ![q] =
                    [pc |-> "done", user |-> user, lid |-> lid, result |-> "success",
                     token |-> lectures[lid].qrToken, expiry |-> lectures[lid].tokenExpiry]]
              /\ UNCHANGED nextToken
    /\ UNCHANGED <<now, sessionVars, lectures, lectureAttendance, startReq, ljoinReq, lresp>>

\* lecture.qrToken = ...; lecture.tokenExpiry = ...; save writes the two paths.
RefreshedLecture(lec, token, expiry) == [lec EXCEPT !.qrToken = token, !.tokenExpiry = expiry]

QrSave(q) ==
    /\ qrReq[q].pc = "save"
    /\ lectures' = [lectures EXCEPT ![qrReq[q].lid] = RefreshedLecture(@, qrReq[q].token, qrReq[q].expiry)]
    /\ QrDone(q, "success", qrReq[q].token)
    /\ UNCHANGED <<now, nextToken, sessionVars, lectureAttendance, startReq, ljoinReq, lresp>>

\* ------------------------------------------------------------- /join/:qrToken
\* A query that still takes the token at the instant of its expiry ($gte).
LectureMatches_atExpiry(lec, token, t) == lec.qrToken = token /\ lec.isActive /\ lec.tokenExpiry >= t

\* Lecture.findOne({qrToken, isActive: true, tokenExpiry: {$gt: new Date()}})
LectureMatches(lec, token, t) == lec.qrToken = token /\ lec.isActive /\ lec.tokenExpiry > t

LectureByToken(token, t) == {i \in DOMAIN lectures : LectureMatches(lectures[i], token, t)}

\* lecture.class.students.includes(req.user._id)
IsEnrolled(student) == student \in Enrolled

\* Attendance.findOne({lecture, student})
ExistingLectureAttendance(lid, student) ==
    \E a \in lectureAttendance : a.lecture = lid /\ a.student = student

\* The unique indexes {lecture, student} and {class, student, date}.
LectureDuplicateKey(doc) ==
    \E a \in lectureAttendance :
        \/ a.lecture = doc.lecture /\ a.student = doc.student
        \/ a.class = doc.class /\ a.student = doc.student /\ a.date = doc.date

LJoinDone(r, result) == ljoinReq' = [ljoinReq EXCEPT ![r].pc = "done", ![r].result = result]

\* The handler up to `await Attendance.findOne(...)`; `at` is the new Date() of
\* the lecture query, the instant the request is evaluated at.
LJoinStart(r, token, student) ==
    /\ ljoinReq[r].pc = "idle"
    /\ \A r0 \in LJoinIds : r0 < r => ljoinReq[r0].pc # "idle"
    /\ LET found == LectureByToken(token, now)
           lid == CHOOSE i \in found : TRUE
           req == [pc |-> "findOne", token |-> token, student |-> student, lid |-> 0,
                   at |-> now, result |-> "none"]
       IN IF found = {}
            THEN ljoinReq' = [ljoinReq EXCEPT ![r] = [req EXCEPT !.pc = "done", !.result = "InvalidToken"]]
            ELSE IF ~IsEnrolled(student)
            THEN ljoinReq' = [ljoinReq EXCEPT ![r] = [req EXCEPT !.pc = "done", !.lid = lid, !.result = "NotEnrolled"]]
            ELSE ljoinReq' = [ljoinReq EXCEPT ![r] = [req EXCEPT !.lid = lid]]
    /\ UNCHANGED <<now, nextToken, sessionVars, lectures, lectureAttendance, startReq, qrReq, lresp>>

\* Attendance.findOne answers and the handler runs to `await attendance.save()`.
LJoinFindOne(r) ==
    /\ ljoinReq[r].pc = "findOne"
    /\ IF ExistingLectureAttendance(ljoinReq[r].lid, ljoinReq[r].student)
         THEN LJoinDone(r, "AlreadyMarked")
         ELSE ljoinReq' = [ljoinReq EXCEPT ![r].pc = "save"]
    /\ UNCHANGED <<now, nextToken, sessionVars, lectures, lectureAttendance, startReq, qrReq, lresp>>

\* The insert runs: a duplicate key is answered 500 'Failed to join lecture'.
LJoinSave(r) ==
    /\ ljoinReq[r].pc = "save"
    /\ LET doc == [lecture |-> ljoinReq[r].lid, class |-> lectures[ljoinReq[r].lid].class,
                   student |-> ljoinReq[r].student, date |-> DayOf(now)]
       IN IF LectureDuplicateKey(doc)
            THEN /\ LJoinDone(r, "Error")
                 /\ UNCHANGED lectureAttendance
            ELSE /\ lectureAttendance' = lectureAttendance \cup {doc}
                 /\ LJoinDone(r, "Accepted")
    /\ UNCHANGED <<now, nextToken, sessionVars, lectures, startReq, qrReq, lresp>>

\* ------------------------------------------------------- cleanupExpiredTokens
\* {tokenExpiry: {$lt: new Date()}, isActive: true}
TokenExpired(lec, t) == lec.tokenExpiry < t /\ lec.isActive

\* A count of the documents the filter of a sweep without `isActive: true` matches.
ModifiedCount_matchingEnded(t) == Cardinality({i \in DOMAIN lectures : lectures[i].tokenExpiry < t})

\* result.modifiedCount: the documents updateMany matched and changed.
ModifiedCount(t) == Cardinality({i \in DOMAIN lectures : TokenExpired(lectures[i], t)})

cleanupExpiredTokens ==
    /\ lectures' = [i \in DOMAIN lectures |->
                      IF TokenExpired(lectures[i], now) THEN StoppedLecture(lectures[i], now) ELSE lectures[i]]
    /\ lresp' = [op |-> "cleanup", lid |-> 0, status |-> "success", modifiedCount |-> ModifiedCount(now)]
    /\ UNCHANGED <<now, nextToken, sessionVars, lectureAttendance, startReq, qrReq, ljoinReq>>

NextL ==
    \/ TickL
    \/ \E k \in StartIds, u \in Callers, d \in LDurations : StartLecture(k, u, d)
    \/ \E k \in StartIds : StartSave(k)
    \/ \E l \in LectureIds, u \in Callers : StopLecture(l, u)
    \/ \E q \in QrIds, l \in LectureIds, u \in Users : QrStart(q, l, u)
    \/ \E q \in QrIds : QrSave(q)
    \/ \E r \in LJoinIds, t \in 0..(nextToken - 1), st \in Students : LJoinStart(r, t, st)
    \/ \E r \in LJoinIds : LJoinFindOne(r)
    \/ \E r \in LJoinIds : LJoinSave(r)
    \/ cleanupExpiredTokens

SpecL == Init /\ [][NextL]_vars

\* ------------------------------------------- lectures of one class on one day
\* POST /start, /stop and /join of routes/lectures.js with two start requests
\* and so up to two lectures of the class, all within one instant of one day.
NextD ==
    \/ \E k \in RaceIds, u \in Callers, d \in LDurations : StartLecture(k, u, d)
    \/ \E k \in RaceIds : StartSave(k)
    \/ \E l \in RaceIds, u \in Callers : StopLecture(l, u)
    \/ \E r \in LJoinIds, t \in 0..(nextToken - 1), st \in Students : LJoinStart(r, t, st)
    \/ \E r \in LJoinIds : LJoinFindOne(r)
    \/ \E r \in LJoinIds : LJoinSave(r)

SpecD == Init /\ [][NextD]_vars

\* ---------------------------------------------- Attendance.markAttendance
\* data.lectureId of a call without a lecture (daily attendance).
NoLecture == 0
MarkLectures == {NoLecture, 1, 2}
Statuses == {"present", "late"}

\* The clock moves on to the next day.
NextDay ==
    /\ now < MaxDays * MinutesPerDay
    /\ now' = now + MinutesPerDay
    /\ UNCHANGED <<nextToken, sessionVars, lectureVars>>

\* The filter of findOneAndUpdate: {lecture, student} with a lectureId,
\* {class, student, date: today} without.
MarkFilter(a, classId, studentId, lectureId, today) ==
    IF lectureId # NoLecture
      THEN a.lecture = lectureId /\ a.student = studentId
      ELSE a.class = classId /\ a.student = studentId /\ a.date = today

\* The document after the update: the lecture branch sets class, student,
\* lecture, date, status and markedAt, the daily branch status and markedAt.
MarkUpdated(a, classId, studentId, lectureId, status, t) ==
    IF lectureId # NoLecture
      THEN [a EXCEPT !.class = classId, !.student = studentId, !.lecture = lectureId,
                     !.date = DayOf(t), !.status = status, !.markedAt = t]
      ELSE [a EXCEPT !.status = status, !.markedAt = t]

\* The document an upsert inserts: the filter's fields and the update's.
MarkInserted(classId, studentId, lectureId, status, t) ==
    [lecture |-> lectureId, class |-> classId, student |-> studentId,
     date |-> DayOf(t), status |-> status, markedAt |-> t]

\* The unique indexes {lecture, student} (sparse: a document with a student
\* is in it, a missing lecture counting as null) and {class, student, date},
\* against the other documents of the collection.
MarkConflict(doc, others) ==
    \E a \in others :
        \/ a.lecture = doc.lecture /\ a.student = doc.student
        \/ a.class = doc.class /\ a.student = doc.student /\ a.date = doc.date

\* Attendance.markAttendance(data): one findOneAndUpdate with upsert; a
\* duplicate-key error (code 11000) is rethrown as 'Attendance already marked
\* for this session'.
MarkAttendance(classId, studentId, lectureId, status) ==
    /\ LET matched == {a \in lectureAttendance :
                          MarkFilter(a, classId, studentId, lectureId, DayOf(now))}
           target == CHOOSE a \in matched : TRUE
           doc == IF matched = {}
                    THEN MarkInserted(classId, studentId, lectureId, status, now)
                    ELSE MarkUpdated(target, classId, studentId, lectureId, status, now)
           others == IF matched = {} THEN lectureAttendance ELSE lectureAttendance \ {target}
       IN IF MarkConflict(doc, others)
            THEN /\ lresp' = [op |-> "markAttendance", lid |-> lectureId, status |-> "AlreadyMarked", modifiedCount |-> 0]
                 /\ UNCHANGED lectureAttendance
            ELSE /\ lresp' = [op |-> "markAttendance", lid |-> lectureId, status |-> "success", modifiedCount |-> 0]
                 /\ lectureAttendance' = others \cup {doc}
    /\ UNCHANGED <<now, nextToken, sessionVars, lectures, startReq, qrReq, ljoinReq>>

NextM ==
    \/ NextDay
    \/ \E s \in Students, l \in MarkLectures, st \in Statuses : MarkAttendance(TheClass, s, l, st)

SpecM == Init /\ [][NextM]_vars

\* ------------------------------------------------------------------ claims
\* Request r's handler ends in this step with the success response.
JoinAccepts(r) == joinReq[r].pc # "done" /\ joinReq'[r].pc = "done" /\ joinReq'[r].result = "Accepted"

\* C1: a Redeem that completes with success presents the token that is the
\* session's current one at that moment: once a rotation has committed, the
\* token it superseded is never again redeemed, in-flight requests included.
C1_SupersededTokenNeverRedeemed ==
    [][\A r \in JoinIds :
         JoinAccepts(r) => joinReq[r].token = sessionObj[joinReq[r].sid].qrToken]_vars

\* The Redeem requests that got past token, window and geofence validation.
PastValidation(r) ==
    joinReq[r].pc = "done" /\ joinReq[r].result \in {"Accepted", "AlreadyMarked", "Error"}

\* C2: of the Redeem calls for one (session, principal) that pass validation,
\* one is Accepted and every other one is answered AlreadyMarked, never a
\* generic failure and never a second success.
C2_LoserSeesAlreadyMarked ==
    \A r1, r2 \in JoinIds :
        (/\ r1 # r2
         /\ PastValidation(r1) /\ PastValidation(r2)
         /\ joinReq[r1].sid = joinReq[r2].sid
         /\ joinReq[r1].studentId = joinReq[r2].studentId)
        => /\ joinReq[r1].result \in {"Accepted", "AlreadyMarked"}
           /\ joinReq[r2].result \in {"Accepted", "AlreadyMarked"}
           /\ ~(joinReq[r1].result = "Accepted" /\ joinReq[r2].result = "Accepted")

\* C3: a principal outside the roster is never accepted and never becomes an
\* attendee or a ledger entry of a session.
C3_NotEnrolledNeverAttends ==
    /\ \A r \in JoinIds :
         (joinReq[r].pc # "idle" /\ joinReq[r].studentId \notin Enrolled)
         => joinReq[r].result # "Accepted"
    /\ \A a \in attendance : a.studentId \in Enrolled
    /\ \A i \in DOMAIN sessionObj :
         \A k \in DOMAIN sessionObj[i].attendees : sessionObj[i].attendees[k].studentId \in Enrolled

\* The session was ended by POST /:sessionId/end, which has returned: only that
\* handler leaves a session inactive with an endTime that is not yet past.
EndedByEndSession(i) == ~sessionObj[i].isActive /\ sessionObj[i].endTime = now

\* C4: after EndSession(s) has returned, no Redeem adds an attendee or a ledger
\* entry to s or answers success for s.
C4_NoRedeemAfterEnd ==
    [][\A i \in DOMAIN sessionObj :
         EndedByEndSession(i)
         => /\ sessionObj'[i].attendees = sessionObj[i].attendees
            /\ \A a \in attendance' \ attendance : a.lectureId # i
            /\ \A r \in JoinIds : JoinAccepts(r) => joinReq[r].sid # i]_vars

\* C5: RotateToken answers NotFound for a session that is not in the store and
\* AlreadyEnded for an Ended one, and its token write never lands on a session
\* that is Ended or removed at the moment of the write.
C5_RotateOnlyOnActive ==
    [][\A q \in RefreshIds :
         /\ (refreshReq[q].pc = "idle" /\ refreshReq'[q].pc # "idle")
            => /\ refreshReq'[q].sid \notin activeSessions => refreshReq'[q].result = "NotFound"
               /\ (refreshReq'[q].sid \in activeSessions /\ ~sessionObj[refreshReq'[q].sid].isActive)
                  => refreshReq'[q].result \in {"NotFound", "SessionEnded"}
         /\ (refreshReq[q].pc = "generateQRCode" /\ refreshReq'[q].result = "success")
            => /\ refreshReq[q].sid \in activeSessions
               /\ sessionObj[refreshReq[q].sid].isActive]_vars

\* C7: a session the sweep has removed from the store is never in the store again.
C7_RemovalIsTerminal ==
    [][\A i \in DOMAIN sessionObj : i \notin activeSessions => i \notin activeSessions']_vars

\* C8: no step removes a session from the store while it is Active (removal
\* comes only after the session has been Ended, so that its attendee list can
\* still be read in between).
C8_NeverRemovedWhileActive ==
    [][\A i \in activeSessions : sessionObj[i].isActive => i \in activeSessions']_vars

\* C9: once a session's isActive is false, no step makes it true again.
C9_StatusMonotonic ==
    [][\A i \in DOMAIN sessionObj : ~sessionObj[i].isActive => ~sessionObj'[i].isActive]_vars

\* The sweep has ended and removed a session (nothing else can have ended it:
\* no join was ever started, no end was ever requested), and a token refresh
\* that was in flight has since written to it: the session is back in the
\* store with the new token, and it is still not active.
C9_Witness ==
    \E i \in DOMAIN sessionObj :
        /\ ~sessionObj[i].isActive
        /\ i \in activeSessions
        /\ resp.op = "create"
        /\ \A r \in JoinIds : joinReq[r].pc = "idle"
        /\ \E q \in RefreshIds : refreshReq[q].result = "success" /\ refreshReq[q].token = sessionObj[i].qrToken

\* C6: a run of the sweep ends exactly the Active sessions whose window has
\* closed (windowEnd <= now); a session whose window is still open stays
\* Active, whatever the age of its token.
C6_SweepEndsExactlyClosedWindows ==
    [][cleanupExpiredTokens =>
         \A i \in DOMAIN lectures :
             lectures[i].isActive => (lectures'[i].isActive <=> WindowEndOf(lectures[i]) > now)]_vars

\* C10: a Redeem evaluated at a time outside [windowStart, windowEnd] is never
\* accepted and leaves no attendance record.
C10_NoRedeemOutsideWindow ==
    \A r \in LJoinIds :
        (ljoinReq[r].pc # "idle" /\ ljoinReq[r].lid # 0
         /\ (ljoinReq[r].at > WindowEndOf(lectures[ljoinReq[r].lid])
             \/ ljoinReq[r].at < lectures[ljoinReq[r].lid].startTime))
        => /\ ljoinReq[r].result # "Accepted"
           /\ ~ExistingLectureAttendance(ljoinReq[r].lid, ljoinReq[r].student)

\* The session request r resolved has a geofence.
Geofenced(r) == joinReq[r].sid # 0 /\ sessionObj[joinReq[r].sid].location.type = "restricted"

\* C11: for a session whose geofence is set, a Redeem that supplies no
\* location is never accepted and leaves no attendance record.
C11_NoLocationNeverAccepted ==
    \A r \in JoinIds :
        (Geofenced(r) /\ joinReq[r].distance = NoLocation)
        => /\ joinReq[r].result # "Accepted"
           /\ \A a \in attendance : a._id # r

\* C12: a Redeem that supplies a location to a geofenced session and passes
\* the earlier checks is rejected OutOfRange exactly when its distance from
\* the centre is strictly greater than the radius; at a distance equal to the
\* radius, or 0, it goes on to the ledger.
C12_OutOfRangeIffBeyondRadius ==
    \A r \in JoinIds :
        (Geofenced(r) /\ joinReq[r].distance # NoLocation)
        => /\ joinReq[r].result = "OutOfRange"
                <=> joinReq[r].distance > sessionObj[joinReq[r].sid].location.radius
           /\ joinReq[r].distance <= sessionObj[joinReq[r].sid].location.radius
                => joinReq[r].result \in {"none", "Accepted", "AlreadyMarked", "Error"}

\* One Redeem from exactly the radius has been accepted, another one from one
\* metre further has been rejected.
C12_Witness ==
    \E r1, r2 \in JoinIds :
        /\ Geofenced(r1) /\ joinReq[r1].distance = Radius /\ joinReq[r1].result = "Accepted"
        /\ Geofenced(r2) /\ joinReq[r2].distance = Radius + 1 /\ joinReq[r2].result = "OutOfRange"

\* C13: in every session each principal is an attendee at most once, in the
\* attendees list of the session object and in the Attendance collection.
C13_AttendeeAtMostOnce ==
    /\ \A i \in DOMAIN sessionObj :
         \A k1, k2 \in DOMAIN sessionObj[i].attendees :
             sessionObj[i].attendees[k1].studentId = sessionObj[i].attendees[k2].studentId => k1 = k2
    /\ \A a1, a2 \in attendance :
         (a1.lectureId = a2.lectureId /\ a1.studentId = a2.studentId) => a1 = a2

\* Two Redeems of one principal for one session both found no record; one of
\* them inserted and was accepted, the other's insert was turned away.
C13_Witness ==
    \E r1, r2 \in JoinIds :
        /\ joinReq[r1].sid = joinReq[r2].sid /\ joinReq[r1].studentId = joinReq[r2].studentId
        /\ joinReq[r1].result = "Accepted" /\ joinReq[r2].result = "Error"
        /\ Len(sessionObj[joinReq[r1].sid].attendees) = 1

\* The token is the current one of a session that is in the store and Active.
CurrentTokenOf(token, i) ==
    i \in activeSessions /\ sessionObj[i].qrToken = token /\ sessionObj[i].isActive

\* C14: attendance survives rotation.  Records are never dropped; a Redeem
\* resolves a session by the token that is current when it is presented (a
\* superseded or unknown token is InvalidToken, the current one gets through
\* to the ledger unless the window or the geofence turns it away); at the
\* ledger a principal with a record for the session is answered
\* AlreadyMarked, whatever token brought the request there, and a principal
\* without one is recorded and Accepted.
C14_AttendanceSurvivesRotation ==
    [][/\ attendance \subseteq attendance'
       /\ \A r \in JoinIds :
            /\ (joinReq[r].pc = "idle" /\ joinReq'[r].pc # "idle")
               => /\ (\A i \in DOMAIN sessionObj : ~CurrentTokenOf(joinReq'[r].token, i))
                        => joinReq'[r].result = "InvalidToken"
                  /\ \A i \in DOMAIN sessionObj :
                        CurrentTokenOf(joinReq'[r].token, i)
                        => /\ joinReq'[r].sid = i
                           /\ joinReq'[r].pc = "findOne"
                                \/ joinReq'[r].result \in {"SessionEnded", "OutOfRange"}
            /\ (joinReq[r].pc = "findOne" /\ joinReq'[r].pc # "findOne")
               => IF \E a \in attendance :
                         a.lectureId = joinReq[r].sid /\ a.studentId = joinReq[r].studentId
                    THEN joinReq'[r].result = "AlreadyMarked"
                    ELSE joinReq'[r].pc = "save"
            /\ (joinReq[r].pc = "save" /\ joinReq'[r].pc # "save"
                /\ ~\E a \in attendance :
                         a.lectureId = joinReq[r].sid /\ a.studentId = joinReq[r].studentId)
               => /\ joinReq'[r].pc = "findById"
                  /\ \E a \in attendance' :
                         a.lectureId = joinReq[r].sid /\ a.studentId = joinReq[r].studentId
            /\ (joinReq[r].pc = "findById" /\ joinReq'[r].pc # "findById")
               => joinReq'[r].result = "Accepted"]_vars

\* A principal was accepted with the first token; the token was rotated; the
\* same principal presented the new token and was answered AlreadyMarked.
C14_Witness ==
    \E r1, r2 \in JoinIds, q \in RefreshIds :
        /\ joinReq[r1].result = "Accepted" /\ joinReq[r2].result = "AlreadyMarked"
        /\ joinReq[r1].sid = joinReq[r2].sid /\ joinReq[r1].studentId = joinReq[r2].studentId
        /\ refreshReq[q].result = "success" /\ refreshReq[q].sid = joinReq[r1].sid
        /\ joinReq[r2].token = refreshReq[q].token /\ joinReq[r1].token # joinReq[r2].token

\* C15: EndSession is idempotent: called by the owner on a session that an
\* EndSession has just ended, it answers success and leaves every field of
\* the session as the first call left it.
C15_EndSessionIdempotent ==
    [][\A s \in DOMAIN sessionObj :
         (/\ resp = [op |-> "end", sid |-> s, status |-> "success", body |-> <<>>]
          /\ ~sessionObj[s].isActive
          /\ EndSession(s, sessionObj[s].teacherId))
         => /\ resp'.status = "success"
            /\ sessionObj'[s] = sessionObj[s]]_vars

\* C16: CreateSession stores no session whose window has windowEnd <=
\* windowStart; such a request fails and the store is left as it was.
C16_NoInvalidWindowCreated ==
    [][\A i \in DOMAIN sessionObj' :
         i \notin DOMAIN sessionObj => DateGT(sessionObj'[i].endTime, sessionObj'[i].startTime)]_vars

\* C17: a Redeem evaluated at or after the tokenExpiry of the token it
\* presents is answered InvalidToken, also while that token is still the
\* current one of an active lecture; it never gets to the ledger.
C17_NoRedeemAtOrAfterTokenExpiry ==
    [][\A r \in LJoinIds :
         (/\ ljoinReq[r].pc = "idle" /\ ljoinReq'[r].pc # "idle"
          /\ \A i \in DOMAIN lectures :
                lectures[i].qrToken = ljoinReq'[r].token => lectures[i].tokenExpiry <= now)
         => /\ ljoinReq'[r].result = "InvalidToken"
            /\ ljoinReq'[r].lid = 0]_vars

\* A Redeem presented the current token of a lecture that is still active,
\* at the very instant of the token's expiry, and was answered InvalidToken.
C17_Witness ==
    \E r \in LJoinIds, i \in DOMAIN lectures :
        /\ lectures[i].isActive /\ lectures[i].qrToken = ljoinReq[r].token
        /\ ljoinReq[r].pc = "done" /\ ljoinReq[r].at = lectures[i].tokenExpiry
        /\ ljoinReq[r].result = "InvalidToken"
        /\ \A q \in QrIds : qrReq[q].pc = "idle"

\* The token values the by-token lookup resolves to session i.
ResolvingTokens(i) == {t \in 0..(nextToken - 1) : i \in LookupByToken(t)}

\* C18: at most one token value resolves through the by-token lookup to a
\* session: its current token, and only while the session is Active; and a
\* token value resolves to at most one session.
C18_OneTokenResolves ==
    /\ \A i \in DOMAIN sessionObj :
         /\ ResolvingTokens(i) \subseteq {sessionObj[i].qrToken}
         /\ ~sessionObj[i].isActive => ResolvingTokens(i) = {}
    /\ \A t \in 0..(nextToken - 1) : Cardinality(LookupByToken(t)) <= 1

\* A rotation has committed on an Active session: the new token resolves to
\* it and the superseded one resolves to nothing.
C18_Witness ==
    \E i \in DOMAIN sessionObj, q \in RefreshIds :
        /\ refreshReq[q].result = "success" /\ refreshReq[q].sid = i
        /\ sessionObj[i].isActive
        /\ ResolvingTokens(i) = {refreshReq[q].token}
        /\ \E t \in 1..(nextToken - 1) : t # refreshReq[q].token /\ LookupByToken(t) = {}

\* C19: a run of the sweep at a time later than a session's windowEnd leaves
\* the session not Active and out of the store, and a Redeem that then
\* presents the token of a session that is not Active or not in the store is
\* answered InvalidToken and records nothing.
C19_InvalidTokenAfterSweep ==
    [][/\ cleanupExpiredSessions
          => \A i \in activeSessions :
                DateGT(now, sessionObj[i].endTime)
                => ~sessionObj'[i].isActive /\ i \notin activeSessions'
       /\ \A r \in JoinIds :
            (/\ joinReq[r].pc = "idle" /\ joinReq'[r].pc # "idle"
             /\ \E i \in DOMAIN sessionObj :
                   /\ sessionObj[i].qrToken = joinReq'[r].token
                   /\ ~sessionObj[i].isActive \/ i \notin activeSessions)
            => /\ joinReq'[r].result = "InvalidToken"
               /\ attendance' = attendance
               /\ sessionObj' = sessionObj]_vars

\* The sweep has ended and removed the session (nothing else has touched it:
\* no end, no rotation, no other Redeem), and the Redeem that then presented
\* its last token was answered InvalidToken.
C19_Witness ==
    \E i \in DOMAIN sessionObj, r \in JoinIds :
        /\ i \notin activeSessions /\ ~sessionObj[i].isActive
        /\ resp.op = "create"
        /\ \A q \in RefreshIds : refreshReq[q].pc = "idle"
        /\ \A r0 \in JoinIds \ {r} : joinReq[r0].pc = "idle"
        /\ joinReq[r].token = sessionObj[i].qrToken
        /\ joinReq[r].result = "InvalidToken"
        /\ attendance = {}

\* The principals whose Redeem for session s has been accepted.
AcceptedFor(s) ==
    {joinReq[r].studentId : r \in {r0 \in JoinIds : joinReq[r0].result = "Accepted" /\ joinReq[r0].sid = s}}

\* C20: a ListAttendance that succeeds returns exactly the principals whose
\* Redeem was accepted for the session, each once, in non-decreasing order
\* of recording time.
C20_ListIsAcceptedInOrder ==
    [][\A s \in SessionIds :
         ((\E u \in Callers : ListAttendance(s, u)) /\ resp'.status = "success")
         => LET body == resp'.body
            IN /\ {body[k].studentId : k \in DOMAIN body} = AcceptedFor(s)
               /\ \A k1, k2 \in DOMAIN body :
                    /\ body[k1].studentId = body[k2].studentId => k1 = k2
                    /\ k1 <= k2 => body[k1].timestamp <= body[k2].timestamp]_vars

\* A successful ListAttendance returned two attendees recorded at different times.
C20_Witness ==
    /\ resp.op = "list" /\ resp.status = "success"
    /\ Len(resp.body) = 2
    /\ resp.body[1].timestamp < resp.body[2].timestamp
    /\ resp.body[1].studentId # resp.body[2].studentId

\* The principals with a record for session i in the Attendance collection.
LedgerOf(i) == {a.studentId : a \in {a0 \in attendance : a0.lectureId = i}}

\* The principals in the attendees list of the session object.
AttendeesOf(i) == {sessionObj[i].attendees[k].studentId : k \in DOMAIN sessionObj[i].attendees}

\* C21: the ledger has an entry for (session, principal) exactly when a
\* Redeem by that principal for that session has returned success, and the
\* session's attendee list holds the same principals as the ledger.
C21_LedgerIffAccepted ==
    \A i \in DOMAIN sessionObj :
        /\ LedgerOf(i) = AcceptedFor(i)
        /\ AttendeesOf(i) = LedgerOf(i)

\* The session with its token or its attendees taken out of the comparison.
ButToken(sess) == [sess EXCEPT !.qrToken = 0]
ButAttendees(sess) == [sess EXCEPT !.attendees = <<>>]

\* C22: a step of a RotateToken changes nothing of a session but its token,
\* a step of a Redeem nothing but its attendees: owner, window bounds and
\* status stay as they are.
C22_FrameOfRotateAndRedeem ==
    [][\A i \in DOMAIN sessionObj :
         /\ refreshReq' # refreshReq => ButToken(sessionObj'[i]) = ButToken(sessionObj[i])
         /\ joinReq' # joinReq => ButAttendees(sessionObj'[i]) = ButAttendees(sessionObj[i])]_vars

\* C23: when QR generation fails, CreateSession and RotateToken answer a
\* failure and leave the store as it was: no session is added, and the
\* session's token is still the one that resolves to it.
C23_QrFailureChangesNothing ==
    [][/\ (\E u \in Callers, d \in Durations, l \in Locations : CreateSession(u, d, l, FALSE))
          => /\ resp'.status \in {"Error", "NotFound"}
             /\ sessionObj' = sessionObj /\ activeSessions' = activeSessions
       /\ \A q \in RefreshIds :
            RefreshFinish(q, FALSE)
            => /\ refreshReq'[q].result = "Error"
               /\ sessionObj' = sessionObj /\ activeSessions' = activeSessions
               /\ \A t \in 0..(nextToken - 1) : LookupByToken(t)' = LookupByToken(t)]_vars

\* A rotation failed on QR generation; the session is Active, and its token,
\* the one it had before the failed rotation, has been redeemed.
C23_Witness ==
    \E q \in RefreshIds, r \in JoinIds :
        /\ refreshReq[q].result = "Error"
        /\ joinReq[r].result = "Accepted" /\ joinReq[r].sid = refreshReq[q].sid
        /\ joinReq[r].token = sessionObj[joinReq[r].sid].qrToken
        /\ sessionObj[joinReq[r].sid].isActive

\* C24: no session leaks.  With the clock and the sweep running, every
\* session whose window closes within the time the model covers (a window
\* that is no valid date included) is in the end Ended, out of the store,
\* and stays so.
C24_NoSessionLeaks ==
    <>[](\A i \in DOMAIN sessionObj :
           (sessionObj[i].endTime = InvalidDate \/ sessionObj[i].endTime < MaxTime)
           => ~sessionObj[i].isActive /\ i \notin activeSessions)

\* The lectures a step takes from Active to Ended.
NewlyEnded == {i \in DOMAIN lectures : lectures[i].isActive /\ ~lectures'[i].isActive}

C27_OnlyOwnerRotates ==
    [][/\ \A q \in QrIds :
            (qrReq[q].pc = "save" /\ qrReq'[q].pc = "done" /\ lectures' # lectures)
            => qrReq[q].user = lectures[qrReq[q].lid].teacher
       /\ \A l \in DOMAIN lectures, u \in Callers :
            (StopLecture(l, u) /\ u # lectures[l].teacher)
            => lresp'.status = "NotFound" /\ lectures' = lectures]_vars

\* C29: a QR request that is answered with a token at time t is answered
\* with one whose tokenExpiry is strictly after t, so that a Redeem
\* presenting it at t gets through the expiry test.
C29_ReturnedTokenIsRedeemable ==
    [][\A q \in QrIds :
         (qrReq[q].pc # "done" /\ qrReq'[q].pc = "done" /\ qrReq'[q].result = "success")
         => qrReq'[q].expiry > now]_vars

\* C26: at most one lecture of the class is active at any time, however the
\* start requests interleave.
C26_OneActiveLecturePerClass ==
    Cardinality({i \in DOMAIN lectures : lectures[i].class = TheClass /\ lectures[i].isActive}) <= 1

\* C28: a redemption that resolved its lecture and passed the roster check
\* is turned away at the ledger only when its principal already has a record
\* for that same lecture: a record for another lecture, of the same class on
\* the same day included, never makes it fail.
C28_LedgerPerLecture ==
    \A r \in LJoinIds :
        (ljoinReq[r].pc = "done" /\ ljoinReq[r].result \in {"Error", "AlreadyMarked"})
        => ExistingLectureAttendance(ljoinReq[r].lid, ljoinReq[r].student)

\* C30: a markAttendance call leaves at most one record per (lecture,
\* student); a call for a pair that has a record is not rejected and leaves
\* the record with the call's status and markedAt.
C30_MarkAttendanceLastWriterWins ==
    [][\A s \in Students, l \in MarkLectures \ {NoLecture}, st \in Statuses :
         MarkAttendance(TheClass, s, l, st)
         => /\ \A a1, a2 \in lectureAttendance' :
                 (a1.lecture = a2.lecture /\ a1.student = a2.student) => a1 = a2
            /\ (\E a \in lectureAttendance : a.lecture = l /\ a.student = s)
                 => /\ lresp'.status = "success"
                    /\ \E a \in lectureAttendance' :
                          /\ a.lecture = l /\ a.student = s
                          /\ a.status = st /\ a.markedAt = now]_vars

====
